---- MODULE Spec2Model ----
(***************************************************************************)
(* A model of scripts/fetch_steering_vectors.py: the function              *)
(* fetch_steering_vector, stepped line by line, and the command-line       *)
(* script around it.                                                       *)
(*                                                                         *)
(* Representation.  A sequence string is a tuple of one-letter strings.    *)
(* A row of input_ids has max_length entries: its first HeadLen entries    *)
(* are stored one by one and the remaining max_length - HeadLen entries,   *)
(* all padding, are stored as a count ("tail").  A hidden state follows    *)
(* the same layout: positions 1..HeadLen one by one and one vector that    *)
(* stands for each of the `tail` trailing padding positions.  Activations  *)
(* are exact rationals <<numerator, denominator>>.                         *)
(***************************************************************************)
EXTENDS Integers, Sequences, FiniteSets, TLC

\* ------------------------------------------------------------------ bounds

\* Records in the largest FASTA file of the modelled file system.
MaxRecords == 33
\* Largest encoder depth among the modelled checkpoints.
MaxDepth == 2
\* Largest embedding size among the modelled checkpoints.
MaxEmb == 1
\* Positions of a row that are stored one by one.
HeadLen == 4

\* -------------------------------------------------------- program constants

max_length == 1024
batch_size == 32
min_seq_len_default == 300
max_seq_len_default == 3066
kmer_len == 3
kmer_stride == 3

\* ------------------------------------------------------------------ values

None == <<>>
Some(v) == <<v>>
IsNone(o) == o = <<>>
Val(o) == o[1]

Unbound == [unbound |-> TRUE]

RECURSIVE GCD(_, _)
GCD(a, b) == IF b = 0 THEN a ELSE GCD(b, a % b)

Abs(x) == IF x < 0 THEN -x ELSE x

\* n/d in lowest terms, d > 0.
Rat(n, d) ==
    LET g == GCD(Abs(n), d)
    IN  <<n \div g, d \div g>>

RatSub(a, b) == Rat(a[1] * b[2] - b[1] * a[2], a[2] * b[2])

RatNeg(a) == <<-a[1], a[2]>>

RECURSIVE SumSeq(_)
SumSeq(s) == IF s = <<>> THEN 0 ELSE Head(s) + SumSeq(Tail(s))

RECURSIVE Concat(_)
Concat(ss) == IF ss = <<>> THEN <<>> ELSE Head(ss) \o Concat(Tail(ss))

Min(a, b) == IF a < b THEN a ELSE b

\* str.lower() on the data types the callers pass.
Lower(s) ==
    CASE s = "FASTA" -> "fasta"
      [] s = "MFE" -> "mfe"
      [] s = "Cai" -> "cai"
      [] s = "MFE_CAI" -> "mfe_cai"
      [] OTHER -> s

\* ------------------------------------------------------------ tokenization

\* mytok(seq, 3, 3): upper-cased, T read as U, k-mers taken at the stride.
BaseOf(c) ==
    CASE c = "A" -> 0
      [] c = "C" -> 1
      [] c = "G" -> 2
      [] c = "U" -> 3
      [] c = "T" -> 3

mytok(seq, k, s) ==
    LET starts == {j \in 0..(Len(seq) - k) : j % s = 0}
        cnt == Cardinality(starts)
    IN  [t \in 1..cnt |-> SubSeq(seq, (t - 1) * s + 1, (t - 1) * s + k)]

PAD == 0
CLS == 2
SEP == 3

\* The tokenizer's vocabulary lookup of one k-mer.
TokenId(kmer) == 5 + 16 * BaseOf(kmer[1]) + 4 * BaseOf(kmer[2]) + BaseOf(kmer[3])

\* tokenizer(..., padding="max_length", truncation=True, max_length=max_length)
\* on one sequence: [CLS] k-mers [SEP], cut to max_len, padded to max_len.
EncodeRow(seq, max_len) ==
    LET toks == mytok(seq, kmer_len, kmer_stride)
        full == <<CLS>> \o [t \in 1..Len(toks) |-> TokenId(toks[t])] \o <<SEP>>
        cut  == IF Len(full) > max_len
                THEN SubSeq(full, 1, max_len - 1) \o <<SEP>>
                ELSE full
        shown == Min(HeadLen, max_len)
    IN  [ids  |-> [p \in 1..shown |-> IF p <= Len(cut) THEN cut[p] ELSE PAD],
         tail |-> max_len - shown]

encode_sequences(sequences, max_len) ==
    [r \in 1..Len(sequences) |-> EncodeRow(sequences[r], max_len)]

\* input_ids.size(1)
RowWidth(row) == Len(row.ids) + row.tail

\* ---------------------------------------------------------------- the model

\* The checkpoints a caller may have loaded: encoder depth and embedding size.
Models == {[depth |-> 1, emb |-> 1], [depth |-> MaxDepth, emb |-> MaxEmb]}

\* Dropout draws of one forward pass: none in evaluation mode.
Noises(is_training) == IF is_training THEN {0, 1} ELSE {0}

\* One activation of hidden state l (0 is the embedding output) for one row.
\* Position Len(row.ids) + 1 stands for each trailing padding position.
Act(l, row, p, e, noise) ==
    LET tok == IF p <= Len(row.ids) THEN row.ids[p] ELSE PAD
    IN  (l + 1) * tok + e * SumSeq(row.ids) + l * p + noise * (p + e)

\* model(batch, output_hidden_states=True, return_dict=True).hidden_states:
\* depth + 1 tensors of shape (batch, max_length, emb), embedding output first.
HiddenStates(m, batch, noise) ==
    [h \in 1..(m.depth + 1) |->
        [r \in 1..Len(batch) |->
            [p \in 1..(Len(batch[r].ids) + 1) |->
                [e \in 1..m.emb |-> Act(h - 1, batch[r], p, e, noise)]]]]

\* DropFirst, with the embedding output kept.
DropFirst_keepAll(hidden_states) == hidden_states

\* hidden_states[1:]
DropFirst(hidden_states) == Tail(hidden_states)

\* torch.stack(encoder_layer_outputs, dim=0) of one batch.
BatchStack(m, batch, noise) == DropFirst(HiddenStates(m, batch, noise))

\* torch.cat(stacks, dim=1): per layer, the rows of every batch in order.
CatRows(stacks) ==
    [l \in 1..Len(stacks[1]) |->
        Concat([b \in 1..Len(stacks) |-> stacks[b][l]])]

\* .mean(axis=1, keepdims=True): per layer one row, the mean over the rows.
MeanRows(stack) ==
    [l \in 1..Len(stack) |->
        LET rows == stack[l]
            n == Len(rows)
        IN  << [p \in 1..Len(rows[1]) |->
                  [e \in 1..Len(rows[1][p]) |->
                      Rat(SumSeq([r \in 1..n |-> rows[r][p][e]]), n)]] >>]

\* Subtract, with the two means added.
Subtract_added(a, b) ==
    [l \in 1..Len(a) |->
        [r \in 1..Len(a[l]) |->
            [p \in 1..Len(a[l][r]) |->
                [e \in 1..Len(a[l][r][p]) |->
                    RatSub(a[l][r][p][e], RatNeg(b[l][r][p][e]))]]]]

\* top_steering_vectors - low_steering_vectors, element by element.
Subtract(a, b) ==
    [l \in 1..Len(a) |->
        [r \in 1..Len(a[l]) |->
            [p \in 1..Len(a[l][r]) |->
                [e \in 1..Len(a[l][r][p]) |-> RatSub(a[l][r][p][e], b[l][r][p][e])]]]]

\* - steering_vectors
Negate(a) ==
    [l \in 1..Len(a) |->
        [r \in 1..Len(a[l]) |->
            [p \in 1..Len(a[l][r]) |->
                [e \in 1..Len(a[l][r][p]) |-> RatNeg(a[l][r][p][e])]]]]

\* array.shape of a stack whose rows end in `tail` padding positions.
Shape(a, tail) ==
    << Len(a), Len(a[1]), (Len(a[1][1]) - 1) + tail, Len(a[1][1][1]) >>

\* Slice, one row short.
Slice_short(rows, i, size) == SubSeq(rows, i + 1, Min(i + size - 1, Len(rows)))

\* top_seqs[i:i+batch_size]
Slice(rows, i, size) == SubSeq(rows, i + 1, Min(i + size, Len(rows)))

\* ----------------------------------------------------------- score tables

SetField(rec, f, v) ==
    [k \in (DOMAIN rec) \cup {f} |-> IF k = f THEN v ELSE rec[k]]

RemoveAt(rows, j) ==
    [m \in 1..(Len(rows) - 1) |-> IF m < j THEN rows[m] ELSE rows[m + 1]]

\* df[col] = values, row by row.
WithColumn(table, col, values) ==
    [r \in 1..Len(table) |-> SetField(table[r], col, values[r])]

\* df.nlargest(k, col): the k rows of largest col, largest first, the earlier
\* row first among equals.
RECURSIVE nlargest(_, _, _)
nlargest(k, table, col) ==
    IF k <= 0 \/ table = <<>>
    THEN <<>>
    ELSE LET best == CHOOSE j \in 1..Len(table) :
                        \A m \in 1..Len(table) :
                            \/ table[m][col] < table[j][col]
                            \/ table[m][col] = table[j][col] /\ j <= m
         IN  <<table[best]>> \o nlargest(k - 1, RemoveAt(table, best), col)

\* df.nsmallest(k, col)
RECURSIVE nsmallest(_, _, _)
nsmallest(k, table, col) ==
    IF k <= 0 \/ table = <<>>
    THEN <<>>
    ELSE LET best == CHOOSE j \in 1..Len(table) :
                        \A m \in 1..Len(table) :
                            \/ table[m][col] > table[j][col]
                            \/ table[m][col] = table[j][col] /\ j <= m
         IN  <<table[best]>> \o nsmallest(k - 1, RemoveAt(table, best), col)

\* int(len(df) * percent), percent a non-negative rational <<num, den>>.
IntTimes(len, percent) == (len * percent[1]) \div percent[2]

\* Lines 57-58: the seq_length column and the length filter.
LengthFilter(table, sequences, lo, hi) ==
    LET lens == [r \in 1..Len(table) |-> Len(sequences[table[r].ID])]
        t1 == WithColumn(table, "seq_length", lens)
    IN  SelectSeq(t1, LAMBDA row : row.seq_length >= lo /\ row.seq_length <= hi)

\* Lines 60-68: the sequences of the n top rows and of the n bottom rows.
PercentileSelect(table, sequences, percent, col) ==
    LET k == IntTimes(Len(table), percent)
        top == nlargest(k, table, col)
        bottom == nsmallest(k, table, col)
    IN  [top |-> [r \in 1..Len(top) |-> sequences[top[r].ID]],
         low |-> [r \in 1..Len(bottom) |-> sequences[bottom[r].ID]]]

\* ------------------------------------------------------------ environment

s1 == <<"A", "U", "G">>
s2 == <<"A", "U", "G", "G", "C", "C">>
s3 == <<"G", "C", "T">>
SeqPool == <<s1, s2, s3>>

\* The FASTA files of the file system, each the sequences of its records.
FastaFiles ==
    [path \in {"empty.fa", "a.fa", "b.fa", "full.fa", "big.fa"} |->
        CASE path = "empty.fa" -> <<>>
          [] path = "a.fa" -> <<s1>>
          [] path = "b.fa" -> <<s2, s1>>
          [] path = "full.fa" -> [r \in 1..batch_size |-> SeqPool[(r % 2) + 2]]
          [] path = "big.fa" -> [r \in 1..MaxRecords |-> SeqPool[(r % 3) + 1]]]

\* SeqIO.parse(path, "fasta"): the records of the file, in order.
SeqIOParse(path) == FastaFiles[path]

PathArgs == {None} \cup {Some(f) : f \in DOMAIN FastaFiles}

\* The `sequences` dictionary a caller of the score-table modes passes.
SequencesDict == [id \in {"r1", "r2", "r3", "r4"} |->
                    CASE id = "r1" -> s1 [] id = "r2" -> s2
                      [] id = "r3" -> s3 [] id = "r4" -> s2]

\* The arguments of a direct call of fetch_steering_vector.
CallArgs ==
    [data_type : {"fasta"}, sequences : {None}, percent : {None},
     min_seq_len : {min_seq_len_default}, max_seq_len : {max_seq_len_default},
     lambda_ : {None}, high_fa_path : PathArgs, low_fa_path : PathArgs]
    \cup
    [data_type : {"mfe", "MFE", "cai", "mfe_cai", "MFE_CAI", "protein"},
     sequences : {Some(SequencesDict)}, percent : {None, Some(<<1, 10>>), Some(<<1, 2>>)},
     min_seq_len : {min_seq_len_default}, max_seq_len : {max_seq_len_default},
     lambda_ : {None, Some(2)}, high_fa_path : {None}, low_fa_path : {None}]
    \cup
    [data_type : {"protein", "FASTA"}, sequences : {None}, percent : {None},
     min_seq_len : {min_seq_len_default}, max_seq_len : {max_seq_len_default},
     lambda_ : {None}, high_fa_path : {None, Some("a.fa")}, low_fa_path : {Some("b.fa")}]

\* The command lines of the script.
Argvs ==
    [model_path : {None, Some("ckpt")},
     high_fa_path : {None, Some("b.fa")},
     low_fa_path : {Some("a.fa")},
     data_type : {None, Some("mfe")},
     save_name : {None, Some("run1")},
     save_dir : {None, Some("out")}]

\* argparse defaults of lines 128-132.
ArgOr(o, default) == IF IsNone(o) THEN default ELSE Val(o)

\* The names bound in the module's globals when line 127 is evaluated:
\* the imports of lines 4-17 and the three functions defined above it.
GlobalsAtParser ==
    {"argparse", "SeqIO", "sys", "torch", "BertForPreTraining", "pd", "np",
     "tqdm", "PeftConfig", "PeftModel", "load_model", "os", "mytok",
     "get_tokenizer", "encode_sequences", "fetch_steering_vector", "load_data",
     "parser"}

\* os.path.join(save_dir, 'steering_vectors_' + save_name + '.npy')
SavePath(save_dir, save_name) == <<save_dir, "steering_vectors_", save_name, ".npy">>

\* ------------------------------------------------------------------ state

VARIABLES
    run,        \* "none", "call" (a direct call of the function) or "script"
    spc,        \* the script's position
    argv,       \* the script's command line
    fsdirs,     \* the directories that exist
    fsfiles,    \* the array files that exist: [path, content]
    model,      \* the checkpoint in use
    training,   \* model.training
    pc,         \* fetch_steering_vector's position
    args,       \* fetch_steering_vector's arguments
    value_col, df, high_fa, low_fa,
    top_seqs, low_seqs,     \* the two sequence lists (lines 53-68)
    top_ids, low_ids,       \* top_seqs, low_seqs once encoded (lines 77-78)
    n, i,
    top_steering_vectors, low_steering_vectors, steering_vectors,
    exc,         \* the exception that ended the call or the run
    model_calls, \* the batches passed to model(...), in order
    prev         \* the previous call that returned: its files and its result

proc == <<run, spc, argv>>
fs == <<fsdirs, fsfiles>>
locals == <<value_col, df, high_fa, low_fa, top_seqs, low_seqs, top_ids, low_ids,
            n, i, top_steering_vectors, low_steering_vectors, steering_vectors>>
vars == <<proc, fs, model, training, pc, args, locals, exc, model_calls, prev>>

NoArgs == [data_type |-> "", sequences |-> None, percent |-> None,
           min_seq_len |-> min_seq_len_default, max_seq_len |-> max_seq_len_default,
           lambda_ |-> None, high_fa_path |-> None, low_fa_path |-> None]

NoArgv == [model_path |-> None, high_fa_path |-> None, low_fa_path |-> None,
           data_type |-> None, save_name |-> None, save_dir |-> None]

\* The locals of fetch_steering_vector on entry: nothing is bound yet.
EntryLocals ==
    /\ value_col' = ""
    /\ df' = Unbound
    /\ high_fa' = <<>>
    /\ low_fa' = <<>>
    /\ top_seqs' = <<>>
    /\ low_seqs' = <<>>
    /\ top_ids' = <<>>
    /\ low_ids' = <<>>
    /\ n' = 0
    /\ i' = 0
    /\ top_steering_vectors' = <<>>
    /\ low_steering_vectors' = <<>>
    /\ steering_vectors' = <<>>
    /\ model_calls' = <<>>
    /\ exc' = ""

Init ==
    /\ run = "none"
    /\ spc = "none"
    /\ argv = NoArgv
    /\ fsdirs = {}
    /\ fsfiles = {}
    /\ model \in Models
    /\ training \in BOOLEAN
    /\ pc = "idle"
    /\ args = NoArgs
    /\ value_col = ""
    /\ df = Unbound
    /\ high_fa = <<>>
    /\ low_fa = <<>>
    /\ top_seqs = <<>>
    /\ low_seqs = <<>>
    /\ top_ids = <<>>
    /\ low_ids = <<>>
    /\ n = 0
    /\ i = 0
    /\ top_steering_vectors = <<>>
    /\ low_steering_vectors = <<>>
    /\ steering_vectors = <<>>
    /\ exc = ""
    /\ model_calls = <<>>
    /\ prev = None

\* Raise, with the exception reported and the function going on.
Raise_warn(e) ==
    /\ pc' = "eval"
    /\ exc' = e

\* raise: the call ends with the exception, nothing else changes.
Raise(e) ==
    /\ pc' = "raised"
    /\ exc' = e

\* ------------------------------------------------- fetch_steering_vector

\* A caller that imported the module calls fetch_steering_vector.
Call(a) ==
    /\ run = "none"
    /\ pc = "idle"
    /\ run' = "call"
    /\ args' = a
    /\ pc' = "validate"
    /\ EntryLocals
    /\ UNCHANGED <<spc, argv, fs, model, training, prev>>

\* Lines 33-48: the data type decides the score column or opens the files.
Validate ==
    /\ pc = "validate"
    /\ LET dt == Lower(args.data_type)
       IN  CASE dt = "mfe" ->
                   /\ value_col' = "MFE_normalized"
                   /\ pc' = "select"
                   /\ UNCHANGED <<df, high_fa, low_fa, exc>>
             [] dt = "cai" ->
                   /\ value_col' = "CAI"
                   /\ pc' = "select"
                   /\ UNCHANGED <<df, high_fa, low_fa, exc>>
             [] dt = "mfe_cai" ->
                   /\ value_col' = "score"
                   /\ IF IsNone(args.lambda_)
                      THEN /\ Raise("ValueError")
                           /\ UNCHANGED df
                      ELSE IF df = Unbound
                      THEN /\ Raise("UnboundLocalError")
                           /\ UNCHANGED df
                      ELSE /\ df' = WithColumn(df, "score",
                                       [r \in 1..Len(df) |->
                                           (- df[r].MFE_normalized)
                                             + Val(args.lambda_) * df[r].log_CAI])
                           /\ pc' = "select"
                           /\ UNCHANGED exc
                   /\ UNCHANGED <<high_fa, low_fa>>
             [] dt = "fasta" ->
                   IF IsNone(args.high_fa_path) \/ IsNone(args.low_fa_path)
                   THEN /\ Raise("AssertionError")
                        /\ UNCHANGED <<value_col, df, high_fa, low_fa>>
                   ELSE /\ high_fa' = SeqIOParse(Val(args.high_fa_path))
                        /\ low_fa' = SeqIOParse(Val(args.low_fa_path))
                        /\ pc' = "select"
                        /\ UNCHANGED <<value_col, df, exc>>
             [] OTHER ->
                   /\ Raise("ValueError")
                   /\ UNCHANGED <<value_col, df, high_fa, low_fa>>
    /\ UNCHANGED <<proc, fs, model, training, args, top_seqs, low_seqs, top_ids,
                   low_ids, n, i, top_steering_vectors, low_steering_vectors,
                   steering_vectors, model_calls, prev>>

\* RecordSeqs, with repeated sequences dropped.
RecordSeqs_unique(fa) ==
    LET keep == SelectSeq([r \in 1..Len(fa) |-> r],
                          LAMBDA r : \A q \in 1..(r - 1) : fa[q] # fa[r])
    IN  [k \in 1..Len(keep) |-> fa[keep[k]]]

\* [str(record.seq) for record in fa]: every record, in file order.
RecordSeqs(fa) == [r \in 1..Len(fa) |-> fa[r]]

\* Lines 52-70: the two sequence lists.
Select ==
    /\ pc = "select"
    /\ IF Lower(args.data_type) = "fasta"
       THEN /\ top_seqs' = RecordSeqs(high_fa)
            /\ low_seqs' = RecordSeqs(low_fa)
            /\ pc' = "eval"
            /\ UNCHANGED <<df, exc>>
       ELSE IF ~ IsNone(args.percent)
       THEN IF df = Unbound
            THEN /\ Raise("UnboundLocalError")
                 /\ UNCHANGED <<df, top_seqs, low_seqs>>
            ELSE LET kept == LengthFilter(df, Val(args.sequences),
                                          args.min_seq_len, args.max_seq_len)
                     sel == PercentileSelect(kept, Val(args.sequences),
                                             Val(args.percent), value_col)
                 IN  /\ df' = kept
                     /\ top_seqs' = sel.top
                     /\ low_seqs' = sel.low
                     /\ pc' = "eval"
                     /\ UNCHANGED exc
       ELSE /\ Raise("ValueError")
            /\ UNCHANGED <<df, top_seqs, low_seqs>>
    /\ UNCHANGED <<proc, fs, model, training, args, value_col, high_fa, low_fa,
                   top_ids, low_ids, n, i, top_steering_vectors,
                   low_steering_vectors, steering_vectors, model_calls, prev>>

\* Line 73: model.eval()
Eval ==
    /\ pc = "eval"
    /\ training' = FALSE
    /\ pc' = "encode"
    /\ UNCHANGED <<proc, fs, model, args, locals, exc, model_calls, prev>>

\* What the tokenizer does with an empty list of texts depends on its version:
\* it raises, or it returns a tensor without rows.
EmptyBatchOutcomes == {"raise", "empty"}

\* Lines 76-79 and 84-86: both lists encoded, the widths compared.
Encode ==
    /\ pc = "encode"
    /\ \E outcome \in EmptyBatchOutcomes :
         LET t == encode_sequences(top_seqs, max_length)
             l == encode_sequences(low_seqs, max_length)
             tw == IF t = <<>> THEN max_length ELSE RowWidth(t[1])
             lw == IF l = <<>> THEN max_length ELSE RowWidth(l[1])
         IN  IF (top_seqs = <<>> \/ low_seqs = <<>>) /\ outcome = "raise"
             THEN /\ Raise("IndexError")
                  /\ UNCHANGED <<top_ids, low_ids, n, i>>
             ELSE IF tw # lw
             THEN /\ Raise("AssertionError")
                  /\ top_ids' = t
                  /\ low_ids' = l
                  /\ UNCHANGED <<n, i>>
             ELSE /\ top_ids' = t
                  /\ low_ids' = l
                  /\ n' = Len(t)
                  /\ i' = 0
                  /\ pc' = "top_loop"
                  /\ UNCHANGED exc
    /\ UNCHANGED <<proc, fs, model, training, args, value_col, df, high_fa, low_fa,
                   top_seqs, low_seqs, top_steering_vectors, low_steering_vectors,
                   steering_vectors, model_calls, prev>>

\* Lines 87-92: one pass of the loop over the top group.
TopBatch ==
    /\ pc = "top_loop"
    /\ i < n
    /\ \E noise \in Noises(training) :
         LET batch == Slice(top_ids, i, batch_size)
         IN  /\ model_calls' = Append(model_calls, [group |-> "top", batch |-> batch])
             /\ top_steering_vectors' =
                    Append(top_steering_vectors, BatchStack(model, batch, noise))
    /\ i' = i + batch_size
    /\ UNCHANGED <<proc, fs, model, training, pc, args, value_col, df, high_fa,
                   low_fa, top_seqs, low_seqs, top_ids, low_ids, n,
                   low_steering_vectors, steering_vectors, exc, prev>>

\* Lines 93-98: the top group's stacks concatenated and averaged.
TopMean ==
    /\ pc = "top_loop"
    /\ i >= n
    /\ IF top_steering_vectors = <<>>
       THEN /\ Raise("RuntimeError")
            /\ UNCHANGED <<top_steering_vectors, n, i>>
       ELSE /\ top_steering_vectors' = MeanRows(CatRows(top_steering_vectors))
            /\ n' = Len(low_ids)
            /\ i' = 0
            /\ pc' = "low_loop"
            /\ UNCHANGED exc
    /\ UNCHANGED <<proc, fs, model, training, args, value_col, df, high_fa, low_fa,
                   top_seqs, low_seqs, top_ids, low_ids, low_steering_vectors,
                   steering_vectors, model_calls, prev>>

\* LowBatch, with the slice taken from the top group's rows.
LowBatch_topSlice ==
    /\ pc = "low_loop"
    /\ i < n
    /\ \E noise \in Noises(training) :
         LET batch == Slice(top_ids, i, batch_size)
         IN  /\ model_calls' = Append(model_calls, [group |-> "low", batch |-> batch])
             /\ low_steering_vectors' =
                    Append(low_steering_vectors, BatchStack(model, batch, noise))
    /\ i' = i + batch_size
    /\ UNCHANGED <<proc, fs, model, training, pc, args, value_col, df, high_fa,
                   low_fa, top_seqs, low_seqs, top_ids, low_ids, n,
                   top_steering_vectors, steering_vectors, exc, prev>>

\* Lines 99-104: one pass of the loop over the low group.
LowBatch ==
    /\ pc = "low_loop"
    /\ i < n
    /\ \E noise \in Noises(training) :
         LET batch == Slice(low_ids, i, batch_size)
         IN  /\ model_calls' = Append(model_calls, [group |-> "low", batch |-> batch])
             /\ low_steering_vectors' =
                    Append(low_steering_vectors, BatchStack(model, batch, noise))
    /\ i' = i + batch_size
    /\ UNCHANGED <<proc, fs, model, training, pc, args, value_col, df, high_fa,
                   low_fa, top_seqs, low_seqs, top_ids, low_ids, n,
                   top_steering_vectors, steering_vectors, exc, prev>>

\* Lines 105-109: the low group's mean, and the difference of the two means.
LowMean ==
    /\ pc = "low_loop"
    /\ i >= n
    /\ IF low_steering_vectors = <<>>
       THEN /\ Raise("RuntimeError")
            /\ UNCHANGED <<low_steering_vectors, steering_vectors>>
       ELSE LET low == MeanRows(CatRows(low_steering_vectors))
            IN  /\ low_steering_vectors' = low
                /\ steering_vectors' = Subtract(top_steering_vectors, low)
                /\ pc' = "ret"
                /\ UNCHANGED exc
    /\ UNCHANGED <<proc, fs, model, training, args, value_col, df, high_fa, low_fa,
                   top_seqs, low_seqs, top_ids, low_ids, n, i, top_steering_vectors,
                   model_calls, prev>>

\* Lines 111-114: the sign for mfe, and the return.
Return ==
    /\ pc = "ret"
    /\ steering_vectors' = IF Lower(args.data_type) = "mfe"
                           THEN Negate(steering_vectors)
                           ELSE steering_vectors
    /\ pc' = "returned"
    /\ UNCHANGED <<proc, fs, model, training, args, value_col, df, high_fa, low_fa,
                   top_seqs, low_seqs, top_ids, low_ids, n, i, top_steering_vectors,
                   low_steering_vectors, exc, model_calls, prev>>

\* ------------------------------------------------------------- the script

\* The script is started with a command line.
StartScript(av) ==
    /\ run = "none"
    /\ pc = "idle"
    /\ run' = "script"
    /\ spc' = "parser"
    /\ argv' = av
    /\ EntryLocals
    /\ UNCHANGED <<fs, model, training, pc, args, prev>>

\* ScriptParser, with the default output directory made before the parser.
ScriptParser_mkdir ==
    /\ fsdirs' = fsdirs \cup {"../data"}
    /\ IF "model_path" \notin GlobalsAtParser
       THEN /\ spc' = "raised"
            /\ exc' = "NameError"
       ELSE /\ spc' = "load"
            /\ UNCHANGED exc
    /\ UNCHANGED <<fsfiles, training, pc, args>>

\* Lines 126-133: the parser; line 127 reads the global model_path for the
\* default of --model_path.
ScriptParser ==
    /\ IF "model_path" \notin GlobalsAtParser
       THEN /\ spc' = "raised"
            /\ exc' = "NameError"
       ELSE /\ spc' = "load"
            /\ UNCHANGED exc
    /\ UNCHANGED <<fs, training, pc, args>>

\* Lines 135-148: the checkpoint is loaded, in evaluation mode.
ScriptLoad ==
    /\ training' = FALSE
    /\ spc' = "call"
    /\ UNCHANGED <<fs, pc, args, exc>>

\* Line 150: the call of fetch_steering_vector.
ScriptCall ==
    /\ args' = [NoArgs EXCEPT
                  !.data_type = Lower(ArgOr(argv.data_type, "fasta")),
                  !.high_fa_path = argv.high_fa_path,
                  !.low_fa_path = argv.low_fa_path]
    /\ pc' = "validate"
    /\ spc' = "wait"
    /\ UNCHANGED <<fs, training, exc>>

\* Lines 152-157: the directory, then the file.
ScriptSave ==
    LET save_dir == ArgOr(argv.save_dir, "../data")
    IN  /\ fsdirs' = fsdirs \cup {save_dir}
        /\ IF IsNone(argv.save_name)
           THEN /\ spc' = "raised"
                /\ exc' = "TypeError"
                /\ UNCHANGED fsfiles
           ELSE LET path == SavePath(save_dir, Val(argv.save_name))
                IN  /\ fsfiles' = {f \in fsfiles : f.path # path}
                          \cup {[path |-> path, content |-> steering_vectors]}
                    /\ spc' = "done"
                    /\ UNCHANGED exc
        /\ UNCHANGED <<training, pc, args>>

\* Line 150 when the call raises: the exception ends the run.
ScriptFail ==
    /\ spc' = "raised"
    /\ UNCHANGED <<fs, training, pc, args, exc>>

\* Lines 126-157, one step at a time; the step after line 150 waits for the
\* call to end.
Script ==
    /\ run = "script"
    /\ spc \in {"parser", "load", "call"} \/ (spc = "wait" /\ pc \in {"returned", "raised"})
    /\ CASE spc = "parser" -> ScriptParser
         [] spc = "load" -> ScriptLoad
         [] spc = "call" -> ScriptCall
         [] spc = "wait" /\ pc = "returned" -> ScriptSave
         [] spc = "wait" /\ pc = "raised" -> ScriptFail
    /\ UNCHANGED <<run, argv, model, locals, model_calls, prev>>

\* The call has ended and its caller goes on, or the process has exited.
Finish ==
    /\ IF run = "call" THEN pc \in {"returned", "raised"}
                       ELSE run = "script" /\ spc \in {"done", "raised"}
    /\ prev' = IF run = "call" /\ pc = "returned"
               THEN Some([high |-> args.high_fa_path,
                          low |-> args.low_fa_path,
                          result |-> steering_vectors])
               ELSE prev
    /\ run' = "none"
    /\ spc' = "none"
    /\ argv' = NoArgv
    /\ pc' = "idle"
    /\ args' = NoArgs
    /\ EntryLocals
    /\ UNCHANGED <<fs, model, training>>

Next ==
    \/ \E a \in CallArgs : Call(a)
    \/ \E av \in Argvs : StartScript(av)
    \/ Validate
    \/ Select
    \/ Eval
    \/ Encode
    \/ TopBatch
    \/ TopMean
    \/ LowBatch
    \/ LowMean
    \/ Return
    \/ Script
    \/ Finish

Spec == Init /\ [][Next]_vars

\* ================================================================ claims

Dt == Lower(args.data_type)
ScoreModes == {"mfe", "cai", "mfe_cai"}
InCall == pc # "idle"
Ended == pc \in {"returned", "raised"}
Members(list) == {list[k] : k \in 1..Len(list)}
Ceil(a, b) == (a + b - 1) \div b

\* ---- C1
\* The script's run has ended, in fasta mode, with the model path, both FASTA
\* paths and the save name given (the files exist and hold records).
C1_Run ==
    /\ run = "script"
    /\ spc \in {"done", "raised"}
    /\ Lower(ArgOr(argv.data_type, "fasta")) = "fasta"
    /\ ~ IsNone(argv.model_path)
    /\ ~ IsNone(argv.high_fa_path)
    /\ ~ IsNone(argv.low_fa_path)
    /\ ~ IsNone(argv.save_name)

\* C1: a fasta-mode run of the script with its arguments given ends having
\* created save_dir and written exactly one array file, at
\* <save_dir>/steering_vectors_<save_name>.npy.
C1_Claim ==
    C1_Run =>
        LET save_dir == ArgOr(argv.save_dir, "../data")
        IN  /\ spc = "done"
            /\ save_dir \in fsdirs
            /\ Cardinality({f \in fsfiles :
                   f.path = SavePath(save_dir, Val(argv.save_name))}) = 1
            /\ \A f \in fsfiles :
                   f.path = SavePath(save_dir, Val(argv.save_name))
                       => f.content = steering_vectors

\* ---- C2
\* The four cases of arguments that C2 names.
ErrCase ==
    \/ Dt \notin (ScoreModes \cup {"fasta"})
    \/ Dt = "mfe_cai" /\ IsNone(args.lambda_)
    \/ Dt \in ScoreModes /\ IsNone(args.percent)
    \/ Dt = "fasta" /\ (IsNone(args.high_fa_path) \/ IsNone(args.low_fa_path))

\* C2: with such arguments the call never gets past the selection (it is at
\* line 33, at line 52, or has raised), it has called neither the tokenizer
\* nor the model, it has no result; and its steps lead to the raise only,
\* leaving the model's mode as it was.
C2_FailsAtOnce ==
    /\ [](InCall /\ ErrCase =>
            /\ pc \in {"validate", "select", "raised"}
            /\ pc = "raised" => exc \in {"ValueError", "AssertionError", "UnboundLocalError"}
            /\ top_ids = <<>> /\ low_ids = <<>>
            /\ model_calls = <<>>
            /\ steering_vectors = <<>>)
    /\ [][InCall /\ ErrCase /\ pc \in {"validate", "select"} =>
            /\ pc' = "raised" \/ (pc = "validate" /\ pc' = "select")
            /\ training' = training]_vars

\* A call in cai mode without a percentage has raised at line 70.
C2_Witness ==
    /\ pc = "raised"
    /\ Dt = "cai"
    /\ IsNone(args.percent)
    /\ exc = "ValueError"

\* ---- C3
\* C3: an mfe call given a percentage ends returning the negated difference of
\* the two group means, and a returning call of another type the difference.
C3_Claim ==
    /\ (Ended /\ Dt = "mfe" /\ ~ IsNone(args.percent) /\ ~ IsNone(args.sequences)) =>
            /\ pc = "returned"
            /\ steering_vectors =
                  Negate(Subtract(top_steering_vectors, low_steering_vectors))
    /\ (pc = "returned" /\ Dt # "mfe") =>
            steering_vectors = Subtract(top_steering_vectors, low_steering_vectors)

\* ---- C4
\* C4: a score-table call given a percentage (and lambda_ for mfe_cai) ends
\* with int(N * p) sequences in each list, N the rows the length filter keeps.
C4_Claim ==
    (Ended /\ Dt \in ScoreModes /\ ~ IsNone(args.percent)
        /\ ~ IsNone(args.sequences) /\ (Dt = "mfe_cai" => ~ IsNone(args.lambda_))) =>
            /\ df # Unbound
            /\ Len(top_seqs) = IntTimes(Len(df), Val(args.percent))
            /\ Len(low_seqs) = IntTimes(Len(df), Val(args.percent))

\* ---- C5
\* The call has returned and the call before it had the two files swapped.
C5_Swapped ==
    /\ pc = "returned"
    /\ run = "call"
    /\ Dt = "fasta"
    /\ ~ IsNone(prev)
    /\ Val(prev).high = args.low_fa_path
    /\ Val(prev).low = args.high_fa_path

\* C5: the result of a fasta call is the element-wise negation of the result
\* of the call with high and low swapped.
C5_SwapNegates ==
    C5_Swapped => steering_vectors = Negate(Val(prev).result)

\* Swapped calls of two different files, one of them longer than a batch.
C5_Witness ==
    /\ C5_Swapped
    /\ Len(top_seqs) > batch_size
    /\ Len(low_seqs) = 1
    /\ steering_vectors # Val(prev).result

\* ---- C6
ZeroVector ==
    \A l \in 1..Len(steering_vectors) :
        \A r \in 1..Len(steering_vectors[l]) :
            \A p \in 1..Len(steering_vectors[l][r]) :
                \A e \in 1..Len(steering_vectors[l][r][p]) :
                    steering_vectors[l][r][p][e] = <<0, 1>>

\* C6: when both groups hold the same sequences the returned steering vector
\* is zero in every layer and at every position.
C6_SameGroupsZero ==
    (pc = "returned" /\ top_seqs = low_seqs) =>
        /\ Len(steering_vectors) = model.depth
        /\ ZeroVector

\* The same file of more than one batch was given as both groups.
C6_Witness ==
    /\ pc = "returned"
    /\ top_seqs = low_seqs
    /\ Len(top_seqs) > batch_size

\* ---- C7
\* C7 as stated: at the encoding no sequence is in both lists.
C7_Disjoint ==
    pc = "encode" => Members(top_seqs) \cap Members(low_seqs) = {}

\* C7 amended: at the encoding the call is a fasta call, the lists are the
\* records of the two files in file order, and a sequence is in both lists
\* exactly when it is in both files.
C7_ListsAreTheFiles ==
    pc = "encode" =>
        /\ Dt = "fasta"
        /\ top_seqs = FastaFiles[Val(args.high_fa_path)]
        /\ low_seqs = FastaFiles[Val(args.low_fa_path)]
        /\ Members(top_seqs) \cap Members(low_seqs) =
               Members(FastaFiles[Val(args.high_fa_path)])
                   \cap Members(FastaFiles[Val(args.low_fa_path)])

\* Two different files that share a sequence are at the encoding.
C7_Witness ==
    /\ pc = "encode"
    /\ args.high_fa_path # args.low_fa_path
    /\ Members(top_seqs) \cap Members(low_seqs) # {}
    /\ Len(top_seqs) > Cardinality(Members(top_seqs))

\* ---- C8
\* C8: a fasta call that returns has a result of shape
\* (n_layers, 1, max_length, embedding_size), n_layers one less than the
\* number of hidden states the model returns.
C8_Shape ==
    (pc = "returned" /\ Dt = "fasta") =>
        /\ Shape(steering_vectors, top_ids[1].tail) =
               << Len(HiddenStates(model, <<top_ids[1]>>, 0)) - 1, 1,
                  max_length, model.emb >>
        /\ Len(steering_vectors) = model.depth
        /\ RowWidth(top_ids[1]) = max_length

\* A returned fasta call whose groups differ in size, on the deeper model.
C8_Witness ==
    /\ pc = "returned"
    /\ Dt = "fasta"
    /\ Len(top_ids) = 1
    /\ Len(low_ids) > batch_size
    /\ model.depth = MaxDepth

\* ---- C9
BatchesOf(g) ==
    LET calls == SelectSeq(model_calls, LAMBDA c : c.group = g)
    IN  [k \in 1..Len(calls) |-> calls[k].batch]

\* The loop over group g ran as C9 says and left `mean`.
C9_Group(g, path, ids, mean) ==
    /\ Len(ids) = Len(FastaFiles[path])
    /\ ids = encode_sequences(FastaFiles[path], max_length)
    /\ Len(BatchesOf(g)) = Ceil(Len(ids), batch_size)
    /\ \A k \in 1..Len(BatchesOf(g)) :
          Len(BatchesOf(g)[k]) >= 1 /\ Len(BatchesOf(g)[k]) <= batch_size
    /\ Concat(BatchesOf(g)) = ids
    /\ mean = MeanRows(BatchStack(model, ids, 0))

\* C9: once a group's loop is over it has made ceil(n/32) forward passes over
\* consecutive slices of at most 32 rows that together are all the rows of
\* the group's FASTA file, and the group's mean is the mean over all n rows.
C9_Batches ==
    /\ (Dt = "fasta" /\ pc \in {"low_loop", "ret", "returned"}) =>
           C9_Group("top", Val(args.high_fa_path), top_ids, top_steering_vectors)
    /\ (Dt = "fasta" /\ pc \in {"ret", "returned"}) =>
           C9_Group("low", Val(args.low_fa_path), low_ids, low_steering_vectors)

\* A returned call with two passes over the top group and one full batch as
\* the low group.
C9_Witness ==
    /\ pc = "returned"
    /\ Len(top_ids) = MaxRecords
    /\ Len(low_ids) = batch_size
    /\ Len(BatchesOf("top")) = 2
    /\ Len(BatchesOf("low")) = 1

\* ---- C10
\* C10: a step changes the directories or the array files only in a run of
\* the script whose call of fetch_steering_vector has returned a result.
C10_SaveOnlyAfterReturn ==
    [][(fsdirs' # fsdirs \/ fsfiles' # fsfiles) =>
          /\ run = "script"
          /\ pc = "returned"
          /\ steering_vectors # <<>>]_vars

\* A run of the script ended in an error and save_dir does not exist.
C10_Witness ==
    /\ run = "script"
    /\ spc = "raised"
    /\ exc # ""
    /\ fsdirs = {}
    /\ fsfiles = {}

====
